---- MODULE Spec2Model ----
(***************************************************************************)
(* KiCad to EasyEDA footprint converter                                    *)
(* (src/kicad_to_easyeda_footprint_converter.py).                          *)
(*                                                                         *)
(* Number representation.  The program computes with Python floats; the    *)
(* model computes with integers in fixed point:                            *)
(*   - source lengths (mm) are integers counting 0.001 mm;                 *)
(*   - converted lengths (EasyEDA units, always rounded to 2 decimals by   *)
(*     mm_to_easyeda) and their halves (hole radius, bounding box edges)   *)
(*     are integers counting 0.005 unit, so 3.94 is 788 and 3.94/2 is 394; *)
(*   - the bounding box centre (min + max) / 2 is kept as the sum          *)
(*     min + max, counting 0.0025 unit.                                    *)
(* Within the bounded inputs below no product mm * 39.3701 / 10 is closer  *)
(* than 1e-6 to a rounding tie and every float error is far below the      *)
(* distance to the next integer, so the fixed-point result is the float    *)
(* result.                                                                 *)
(***************************************************************************)
EXTENDS Integers, Sequences, FiniteSets, TLC

VARIABLES
    pc,             \* position of the running code
    later_run,      \* TRUE once this process has completed a conversion run
    argv,           \* sys.argv
    files,          \* the file system: path -> file
    exit_code,      \* process exit status, Running while the process lives
    console,        \* what was printed (stdout and stderr), in order
    exception,      \* the exception being raised, NoException otherwise
    input_file,     \* main: input_file
    output_file,    \* main: output_file
    kicad_content,  \* main / parse_kicad_footprint: the text read
    pad_pos,        \* parse_kicad_footprint: scan position of finditer
    footprint_data, \* parse result / convert_to_easyeda argument
    shapes,         \* convert_to_easyeda: shapes
    gge_counter,    \* convert_to_easyeda: gge_counter
    min_x, max_x, min_y, max_y,  \* convert_to_easyeda: bounding box
    pad_i,          \* convert_to_easyeda: index of the next pad of the loop
    circle_i,       \* convert_to_easyeda: index of the next circle of the loop
    easyeda_json    \* convert_to_easyeda: the returned document

vars == <<pc, later_run, argv, files, exit_code, console, exception,
          input_file, output_file,
          kicad_content, pad_pos, footprint_data, shapes, gge_counter,
          min_x, max_x, min_y, max_y, pad_i, circle_i, easyeda_json>>

mainVars == <<argv, files, exit_code, console, exception, input_file,
              output_file>>
parseVars == <<kicad_content, pad_pos>>
convVars == <<shapes, gge_counter, min_x, max_x, min_y, max_y, pad_i,
              circle_i, easyeda_json>>

----------------------------------------------------------------------------
(* Bounds of the model *)

MaxPads == 2
MaxCircles == 2
MaxConstructs == 2

----------------------------------------------------------------------------
(* Arithmetic *)

\* round(): nearest integer to n / d (d > 0), ties to the even neighbour
RoundHalfEven(n, d) ==
    LET q == n \div d
        r == n % d
    IN  IF 2 * r < d THEN q
        ELSE IF 2 * r > d THEN q + 1
        ELSE IF q % 2 = 0 THEN q ELSE q + 1

\* round(mm * 39.3701 / 10, 2): 0.001 mm in, 0.005 EasyEDA unit out
mm_to_easyeda(mm) == 2 * RoundHalfEven(mm * 393701, 1000000)

\* int(): truncation toward zero of n / d (d > 0)
PyInt(n, d) == IF n >= 0 THEN n \div d ELSE -((-n) \div d)

\* float('inf'), float('-inf') and finite floats
PosInf == [inf |-> 1, v |-> 0]
NegInf == [inf |-> -1, v |-> 0]
Fin(n) == [inf |-> 0, v |-> n]

PyLess(a, b) ==
    IF a.inf # 0 \/ b.inf # 0 THEN a.inf < b.inf ELSE a.v < b.v

PyMinLast(a, b) == b

PyMin(a, b) == IF PyLess(b, a) THEN b ELSE a
PyMax(a, b) == IF PyLess(a, b) THEN b ELSE a

----------------------------------------------------------------------------
(* Data: pads, circles and the parse result *)

\* A pad record of footprint_data['pads'].  A pad without the 'layers' key is
\* modelled with layers = << >>: the code reads the key only through
\* pad.get('layers', []).
Pad(number, type, shape, x, y, width, height, drill, layers) ==
    [number |-> number, type |-> type, shape |-> shape, x |-> x, y |-> y,
     width |-> width, height |-> height, drill |-> drill, layers |-> layers]

\* A circle record of footprint_data['circles']
Circle(cx, cy, radius) ==
    [cx |-> cx, cy |-> cy, radius |-> radius, layer |-> "Cmts.User"]

\* The dictionary parse_kicad_footprint builds ('texts' stays empty)
FootprintData(name, description, pads, circles) ==
    [name |-> name, description |-> description, pads |-> pads,
     circles |-> circles]

NoFootprint == FootprintData("", "", << >>, << >>)

\* Pads given to convert_to_easyeda: every mount kind with and without a
\* drill (0.001 mm is a drill that converts to 0.0), every layer association
ThruHolePads ==
    { Pad("1", "thru_hole", "circle", 1000, 2000, 1700, 1700, d, <<"*.Cu">>) :
        d \in {0, 1, 1000} }
    \cup { Pad("2", "thru_hole", "roundrect", -2540, 0, 1000, 3000, 800,
               <<"F.Cu">>) }

OtherPads ==
    { Pad("3", "smd", "rect", 5000, -1270, 1000, 600, 0, <<"F.Cu">>),
      Pad("3", "smd", "rect", 5000, -1270, 1000, 600, 1000, <<"F.Cu">>),
      Pad("MH", "np_thru_hole", "circle", 0, 3000, 2200, 2200, 2200, <<"*.Cu">>) }

ConnectPads ==
    { Pad("4", "connect", "oval", -1270, 1270, 600, 1500, 300, ls) :
        ls \in { << >>, <<"F.Cu">>, <<"B.Cu">>, <<"*.Cu">>,
                 <<"F.Cu", "B.Cu">> } }

PadValues == ThruHolePads \cup OtherPads \cup ConnectPads

CircleValues == { Circle(0, 0, 1000), Circle(2000, -1000, 5000) }

SeqsUpTo(S, n) == UNION { [1..k -> S] : k \in 0..n }

FootprintInputs ==
    { FootprintData("MountingHole", "", ps, cs) :
        ps \in SeqsUpTo(PadValues, MaxPads),
        cs \in SeqsUpTo(CircleValues, MaxCircles) }

----------------------------------------------------------------------------
(* convert_to_easyeda *)

layer_map(name) ==
    CASE name = "F.Cu" -> "1"
      [] name = "B.Cu" -> "2"
      [] name = "*.Cu" -> "11"
      [] name = "F.SilkS" -> "3"
      [] name = "Cmts.User" -> "12"
      [] OTHER -> "1"          \* layer_map.get(layer_name, '1')

\* f"gge{gge_counter}"
GgeId(n) == <<"gge", n>>

Contains(seq, e) == \E k \in 1..Len(seq) : seq[k] = e

shape_type(pad) ==
    IF pad.shape = "circle" THEN "ELLIPSE"
    ELSE IF pad.shape = "rect" THEN "RECT"
    ELSE IF pad.shape = "oval" THEN "OVAL"
    ELSE "ELLIPSE"

\* "Determine layer": layer_id, plated and the (possibly overridden) drill
ResolveLayer(pad) ==
    IF pad.type = "thru_hole"
    THEN [layer_id |-> "11", plated |-> "Y", drill |-> mm_to_easyeda(pad.drill)]
    ELSE IF pad.type = "connect"
    THEN [layer_id |-> IF Contains(pad.layers, "F.Cu") THEN "1"
                       ELSE IF Contains(pad.layers, "B.Cu") THEN "2"
                       ELSE "1",
          plated |-> "N", drill |-> 0]
    ELSE [layer_id |-> "11", plated |-> "Y", drill |-> mm_to_easyeda(pad.drill)]

\* The PAD string: one field per "~" separated field that varies
PadToken(pad, layer_id, holeradius, n, plated) ==
    [kind |-> "PAD", shape |-> shape_type(pad),
     x |-> mm_to_easyeda(pad.x), y |-> mm_to_easyeda(pad.y),
     width |-> mm_to_easyeda(pad.width), height |-> mm_to_easyeda(pad.height),
     layer |-> layer_id, number |-> pad.number, holeradius |-> holeradius,
     id |-> GgeId(n), plated |-> plated]

HoleTokensDiameter(pad, n) ==
    LET r == ResolveLayer(pad)
    IN  IF r.drill > 0 /\ pad.type = "thru_hole"
        THEN << PadToken(pad, r.layer_id, r.drill, n, r.plated) >>
        ELSE << >>

HoleTokensAnyKind(pad, n) ==
    LET r == ResolveLayer(pad)
    IN  IF r.drill > 0
        THEN << PadToken(pad, r.layer_id, r.drill \div 2, n, r.plated) >>
        ELSE << >>

\* "if drill > 0 and pad['type'] == 'thru_hole'": the PAD with hole
HoleTokens(pad, n) ==
    LET r == ResolveLayer(pad)
    IN  IF r.drill > 0 /\ pad.type = "thru_hole"
        THEN << PadToken(pad, r.layer_id, r.drill \div 2, n, r.plated) >>
        ELSE << >>

RECURSIVE LayerTokensResolved(_, _, _)
LayerTokensResolved(pad, names, n) ==
    IF names = << >> THEN << >>
    ELSE IF Head(names) \in {"F.Cu", "B.Cu"}
    THEN << PadToken(pad, ResolveLayer(pad).layer_id, 0, n, "N") >>
         \o LayerTokensResolved(pad, Tail(names), n + 1)
    ELSE LayerTokensResolved(pad, Tail(names), n)

\* "if pad['type'] == 'connect'": one PAD per layer name that is F.Cu or B.Cu
RECURSIVE LayerTokens(_, _, _)
LayerTokens(pad, names, n) ==
    IF names = << >> THEN << >>
    ELSE IF Head(names) \in {"F.Cu", "B.Cu"}
    THEN << PadToken(pad, layer_map(Head(names)), 0, n, "N") >>
         \o LayerTokens(pad, Tail(names), n + 1)
    ELSE LayerTokens(pad, Tail(names), n)

ConnectTokens(pad, n) ==
    IF pad.type = "connect" THEN LayerTokens(pad, pad.layers, n) ELSE << >>

\* Everything one iteration of the pad loop appends to shapes
PadTokens(pad, n) ==
    LET hole == HoleTokens(pad, n)
    IN  hole \o ConnectTokens(pad, n + Len(hole))

\* 0.15 * 3.937, unrounded (counted in 0.00001 unit)
stroke_width == 59055

CircleToken(circle, n) ==
    [kind |-> "CIRCLE", cx |-> mm_to_easyeda(circle.cx),
     cy |-> mm_to_easyeda(circle.cy), r |-> mm_to_easyeda(circle.radius),
     stroke_width |-> stroke_width, layer |-> "12", id |-> GgeId(n)]

CircleTokens(circle, n) == << CircleToken(circle, n) >>

\* Bounding box edges of one pad and of one circle
PadLeft(pad) == mm_to_easyeda(pad.x) - mm_to_easyeda(pad.width) \div 2
PadRight(pad) == mm_to_easyeda(pad.x) + mm_to_easyeda(pad.width) \div 2
PadTop(pad) == mm_to_easyeda(pad.y) - mm_to_easyeda(pad.height) \div 2
PadBottom(pad) == mm_to_easyeda(pad.y) + mm_to_easyeda(pad.height) \div 2

CircleLeft(c) == mm_to_easyeda(c.cx) - mm_to_easyeda(c.radius)
CircleRight(c) == mm_to_easyeda(c.cx) + mm_to_easyeda(c.radius)
CircleTop(c) == mm_to_easyeda(c.cy) - mm_to_easyeda(c.radius)
CircleBottom(c) == mm_to_easyeda(c.cy) + mm_to_easyeda(c.radius)

\* Canvas position added to the centre of the bounding box
CanvasX == 4000
CanvasY == 3000

\* int(4000 + (min + max) / 2), lo and hi counting 0.005 unit
OriginCoord(canvas, lo, hi) ==
    IF lo.inf # 0 \/ hi.inf # 0 THEN canvas
    ELSE PyInt(canvas * 400 + lo.v + hi.v, 400)

OriginIfEmitted(lx, hx, ly, hy) ==
    IF shapes = << >> THEN [x |-> CanvasX, y |-> CanvasY]
    ELSE [x |-> OriginCoord(CanvasX, lx, hx), y |-> OriginCoord(CanvasY, ly, hy)]

\* "if min_x == float('inf')": the default, else the centre of the box
Origin(lx, hx, ly, hy) ==
    IF lx = PosInf THEN [x |-> CanvasX, y |-> CanvasY]
    ELSE [x |-> OriginCoord(CanvasX, lx, hx), y |-> OriginCoord(CanvasY, ly, hy)]

\* The returned dictionary: what of it depends on the input.  head holds
\* head.x, head.y and c_para.package, canvas the two origin fields of the
\* "CA~..." string; the layers and objects tables are constants.
EasyedaJson(name, origin, tokens) ==
    [bound |-> TRUE,
     head |-> [package |-> name, x |-> origin.x, y |-> origin.y],
     canvas |-> [x |-> origin.x, y |-> origin.y],
     shape |-> tokens,
     layers |-> 15, objects |-> 15]

\* No document: the name is not bound
NoJson ==
    [bound |-> FALSE, head |-> [package |-> "", x |-> 0, y |-> 0],
     canvas |-> [x |-> 0, y |-> 0], shape |-> << >>,
     layers |-> 0, objects |-> 0]

\* shapes.append(...) for each new string, in order
prepend(list, new) == new \o list

append(list, new) == list \o new

\* Where the loops stand: pads first, then circles, then the assembly
LoopPc(fd, i, j) ==
    IF i <= Len(fd.pads) THEN "conv_pads"
    ELSE IF j <= Len(fd.circles) THEN "conv_circles"
    ELSE "conv_origin"

ConvertEnterSharedCounter(fd) ==
    /\ footprint_data' = fd
    /\ shapes' = << >>
    /\ gge_counter' = (IF later_run THEN gge_counter ELSE 1)
    /\ min_x' = PosInf /\ max_x' = NegInf
    /\ min_y' = PosInf /\ max_y' = NegInf
    /\ pad_i' = 1 /\ circle_i' = 1
    /\ easyeda_json' = NoJson
    /\ pc' = LoopPc(fd, 1, 1)

\* Entry of convert_to_easyeda(fd): the locals before the first loop
ConvertEnter(fd) ==
    /\ footprint_data' = fd
    /\ shapes' = << >>
    /\ gge_counter' = 1
    /\ min_x' = PosInf /\ max_x' = NegInf
    /\ min_y' = PosInf /\ max_y' = NegInf
    /\ pad_i' = 1 /\ circle_i' = 1
    /\ easyeda_json' = NoJson
    /\ pc' = LoopPc(fd, 1, 1)

\* A caller invokes convert_to_easyeda on some parsed footprint
ConvertCall ==
    /\ pc = "call"
    /\ \E fd \in FootprintInputs : ConvertEnter(fd)
    /\ UNCHANGED <<later_run, mainVars, parseVars>>

\* One iteration of "for pad in footprint_data['pads']"
ConvertPad ==
    /\ pc = "conv_pads"
    /\ LET pad == footprint_data.pads[pad_i]
           new == PadTokens(pad, gge_counter)
       IN  /\ min_x' = PyMin(min_x, Fin(PadLeft(pad)))
           /\ max_x' = PyMax(max_x, Fin(PadRight(pad)))
           /\ min_y' = PyMin(min_y, Fin(PadTop(pad)))
           /\ max_y' = PyMax(max_y, Fin(PadBottom(pad)))
           /\ shapes' = append(shapes, new)
           /\ gge_counter' = gge_counter + Len(new)
    /\ pad_i' = pad_i + 1
    /\ pc' = LoopPc(footprint_data, pad_i + 1, circle_i)
    /\ UNCHANGED <<later_run, mainVars, parseVars, footprint_data, circle_i,
                   easyeda_json>>

\* One iteration of "for circle in footprint_data['circles']"
ConvertCircle ==
    /\ pc = "conv_circles"
    /\ LET circle == footprint_data.circles[circle_i]
           new == CircleTokens(circle, gge_counter)
       IN  /\ min_x' = PyMin(min_x, Fin(CircleLeft(circle)))
           /\ max_x' = PyMax(max_x, Fin(CircleRight(circle)))
           /\ min_y' = PyMin(min_y, Fin(CircleTop(circle)))
           /\ max_y' = PyMax(max_y, Fin(CircleBottom(circle)))
           /\ shapes' = append(shapes, new)
           /\ gge_counter' = gge_counter + Len(new)
    /\ circle_i' = circle_i + 1
    /\ pc' = LoopPc(footprint_data, pad_i, circle_i + 1)
    /\ UNCHANGED <<later_run, mainVars, parseVars, footprint_data, pad_i,
                   easyeda_json>>

\* The origin, the assembly of the document and the return
ConvertReturn ==
    /\ pc = "conv_origin"
    /\ easyeda_json' = EasyedaJson(footprint_data.name,
                                   Origin(min_x, max_x, min_y, max_y), shapes)
    /\ pc' = "converted"
    /\ UNCHANGED <<later_run, mainVars, parseVars, footprint_data, shapes,
                   gge_counter, min_x, max_x, min_y, max_y, pad_i, circle_i>>

\* The caller drops the document and the frame of the call is gone.  The
\* last value of gge_counter is left in place: the next call must not depend
\* on it, and ConvertEnter overwrites it.
ConvertRelease ==
    /\ pc = "converted"
    /\ pc' = "call"
    /\ later_run' = TRUE
    /\ footprint_data' = NoFootprint
    /\ easyeda_json' = NoJson
    /\ shapes' = << >>
    /\ min_x' = PosInf /\ max_x' = NegInf
    /\ min_y' = PosInf /\ max_y' = NegInf
    /\ pad_i' = 1 /\ circle_i' = 1
    /\ UNCHANGED <<gge_counter, mainVars, parseVars>>

----------------------------------------------------------------------------
(* The text of a footprint file *)

\* Text is a sequence of characters
KicadExt == <<".", "k", "i", "c", "a", "d", "_", "m", "o", "d">>
EasyedaExt == <<"_", "e", "a", "s", "y", "e", "d", "a", ".", "j", "s", "o", "n">>

Digits == {"0", "1", "2", "3", "4", "5", "6", "7", "8", "9"}

\* The character class [-\d.] of pad_pattern and circle_pattern
NumberChars == Digits \cup {"-", "."}

DigitValue(c) ==
    CASE c = "0" -> 0 [] c = "1" -> 1 [] c = "2" -> 2 [] c = "3" -> 3
      [] c = "4" -> 4 [] c = "5" -> 5 [] c = "6" -> 6 [] c = "7" -> 7
      [] c = "8" -> 8 [] c = "9" -> 9

\* ([-\d.]+) matches the whole field
MatchesNumber(s) ==
    /\ s # << >>
    /\ \A k \in 1..Len(s) : s[k] \in NumberChars

\* ([-\d.]+) followed by anything: the longest prefix of s in the class
RECURSIVE ClassPrefix(_)
ClassPrefix(s) ==
    IF s = << >> \/ Head(s) \notin NumberChars THEN << >>
    ELSE <<Head(s)>> \o ClassPrefix(Tail(s))

\* float(s) accepts an optional sign, then digits with at most one point and
\* at least one digit
Unsigned(s) == IF s # << >> /\ s[1] \in {"-", "+"} THEN Tail(s) ELSE s

FloatAccepts(s) ==
    LET u == Unsigned(s)
    IN  /\ \A k \in 1..Len(u) : u[k] \in Digits \cup {"."}
        /\ Cardinality({ k \in 1..Len(u) : u[k] = "." }) <= 1
        /\ \E k \in 1..Len(u) : u[k] \in Digits

RECURSIVE DigitsValue(_)
DigitsValue(ds) ==
    IF ds = << >> THEN 0
    ELSE 10 * DigitsValue(SubSeq(ds, 1, Len(ds) - 1)) + DigitValue(ds[Len(ds)])

\* float(s) of an accepted field, counted in 0.001 (fields carry at most
\* three decimals)
FloatValue(s) ==
    LET u == Unsigned(s)
        dots == { k \in 1..Len(u) : u[k] = "." }
        dot == IF dots = {} THEN Len(u) + 1 ELSE CHOOSE k \in dots : TRUE
        whole == SubSeq(u, 1, dot - 1)
        padded == IF dots = {} THEN u \o <<".", "0", "0", "0">>
                  ELSE u \o <<"0", "0", "0">>
        frac == SubSeq(padded, dot + 1, dot + 3)
        magnitude == 1000 * DigitsValue(whole) + DigitsValue(frac)
    IN  IF s[1] = "-" THEN -magnitude ELSE magnitude

\* x ** 0.5 of a number counted in 0.000001, the result counted in 0.001
\* (every circle of the model has a radius that is a whole number of 0.001)
RECURSIVE SqrtBetween(_, _, _)
SqrtBetween(n, lo, hi) ==
    IF lo >= hi THEN lo
    ELSE LET mid == (lo + hi + 1) \div 2
         IN  IF mid * mid <= n THEN SqrtBetween(n, mid, hi)
             ELSE SqrtBetween(n, lo, mid - 1)

Sqrt(n) == SqrtBetween(n, 0, IF n < 46340 THEN n ELSE 46340)

\* One construct of the text.  number is the quoted string of a footprint,
\* descr or pad construct.  For a pad, nums holds the fields of the at,
\* size and drill sub-constructs that are present, in order (five when all
\* are); for a circle the fields of center and end (four).  window is the set
\* of layer names that occur in the text from the start of the match to 200
\* characters after its end; it is given with the construct, whatever follows
\* the construct in the text (the constructs of a text lie further apart).
Construct(kind, number, type, shape, nums, window) ==
    [kind |-> kind, number |-> number, type |-> type, shape |-> shape,
     nums |-> nums, window |-> window]

T0 == <<"0">>
T1 == <<"1", ".", "0">>
T2 == <<"2">>
T17 == <<"1", ".", "7">>
TNeg == <<"-", "1", ".", "2", "7">>
T4 == <<"4", ".">>
THalf == <<".", "5">>
TDots == <<"1", ".", "2", ".", "3">>
TDash == <<"-">>
TExp == <<"1", "e", "3">>

ConstructValues ==
    { Construct("footprint", "MountingHole", "", "", << >>, {}),
      Construct("descr", "Mounting Hole 2.5mm", "", "", << >>, {}),
      Construct("pad", "1", "thru_hole", "circle", <<T1, T2, T17, T17, T1>>,
                {"*.Cu"}),
      Construct("pad", "2", "connect", "rect", <<TNeg, T0, T4, THalf, T0>>,
                {"F.Cu", "B.Cu"}),
      Construct("pad", "3", "smd", "rect", <<T1, T2, T17, T17>>, {"F.Cu"}),
      Construct("pad", "4", "smd", "oval", <<T1, TExp, T17, T17, T0>>, {}),
      Construct("pad", "5", "thru_hole", "oval", <<T1, TDots, T17, T17, T1>>,
                {"B.Cu"}),
      Construct("pad", "6", "thru_hole", "circle", <<T0, T0, T2, T2, TDash>>,
                {}),
      Construct("pad", "7", "thru_hole", "rect", <<T0, T0, TExp, T2, T1>>,
                {"*.Cu"}),
      Construct("fp_circle", "", "", "", <<T0, T0, T1, T0>>, {}),
      Construct("fp_circle", "", "", "", <<T1, T0, T4, T4>>, {}),
      Construct("fp_circle", "", "", "", <<T0, TDash, T1, T0>>, {}) }

TextInputs == SeqsUpTo(ConstructValues, MaxConstructs)

----------------------------------------------------------------------------
(* parse_kicad_footprint *)

\* re.search(r'footprint\s+"([^"]+)"'): the first name, '' without one
FootprintName(text) ==
    LET named == { k \in 1..Len(text) :
                     text[k].kind = "footprint" /\ text[k].number # "" }
    IN  IF named = {} THEN ""
        ELSE text[CHOOSE k \in named : \A j \in named : k <= j].number

\* re.search(r'\(descr\s+"([^"]+)"\)'): the first description, '' without one
FootprintDescription(text) ==
    LET described == { k \in 1..Len(text) :
                         text[k].kind = "descr" /\ text[k].number # "" }
    IN  IF described = {} THEN ""
        ELSE text[CHOOSE k \in described : \A j \in described : k <= j].number

\* pad_pattern matches a pad construct with a number, a type, a shape and the
\* at, size and drill sub-constructs, every field in [-\d.]+; the second
\* field of at is followed by [^)]*, so it only has to start in the class
pad_pattern(c) ==
    /\ c.kind = "pad"
    /\ c.number # ""
    /\ Len(c.nums) = 5
    /\ \A k \in {1, 3, 4, 5} : MatchesNumber(c.nums[k])
    /\ ClassPrefix(c.nums[2]) # << >>

\* circle_pattern matches an fp_circle construct with center and end, every
\* field in [-\d.]+
circle_pattern(c) ==
    /\ c.kind = "fp_circle"
    /\ Len(c.nums) = 4
    /\ \A k \in 1..4 : MatchesNumber(c.nums[k])

\* match.group(k) of a match: the fields as captured
PadGroups(c) == [c.nums EXCEPT ![2] = ClassPrefix(@)]

\* re.finditer: the next match at or after position from, 0 when none is left
NextPadMatch(text, from) ==
    LET ms == { k \in from..Len(text) : pad_pattern(text[k]) }
    IN  IF ms = {} THEN 0 ELSE CHOOSE k \in ms : \A j \in ms : k <= j

NextCircleMatch(text, from) ==
    LET ms == { k \in from..Len(text) : circle_pattern(text[k]) }
    IN  IF ms = {} THEN 0 ELSE CHOOSE k \in ms : \A j \in ms : k <= j

\* "Check for layers": the first of F.Cu, B.Cu, *.Cu found in the window
PadLayers(window) ==
    IF "F.Cu" \in window THEN <<"F.Cu">>
    ELSE IF "B.Cu" \in window THEN <<"B.Cu">>
    ELSE IF "*.Cu" \in window THEN <<"*.Cu">>
    ELSE << >>

ParsedPad(c) ==
    LET g == PadGroups(c)
    IN  Pad(c.number, c.type, c.shape, FloatValue(g[1]), FloatValue(g[2]),
            FloatValue(g[3]), FloatValue(g[4]), FloatValue(g[5]),
            PadLayers(c.window))

ParsedCircle(c) ==
    LET g == c.nums
        cx == FloatValue(g[1])
        cy == FloatValue(g[2])
        ex == FloatValue(g[3])
        ey == FloatValue(g[4])
    IN  Circle(cx, cy, Sqrt((ex - cx) * (ex - cx) + (ey - cy) * (ey - cy)))

\* Entry of parse_kicad_footprint(text): name, description, empty lists
ParseEnter(text) ==
    /\ kicad_content' = text
    /\ footprint_data' = FootprintData(FootprintName(text),
                                       FootprintDescription(text), << >>, << >>)
    /\ pad_pos' = 1
    /\ pc' = "parse_pads"

\* A caller invokes parse_kicad_footprint on some text
ParseCall ==
    /\ pc = "parse_call"
    /\ \E text \in TextInputs : ParseEnter(text)
    /\ UNCHANGED <<later_run, mainVars, convVars>>

\* One iteration of "for match in re.finditer(pad_pattern, ...)", or the end
\* of the loop; float() raises ValueError on a field it does not accept
ParsePad ==
    /\ pc = "parse_pads"
    /\ LET k == NextPadMatch(kicad_content, pad_pos)
       IN  IF k = 0
           THEN /\ pc' = "parse_circles"
                /\ pad_pos' = 1
                /\ UNCHANGED <<footprint_data, exception>>
           ELSE IF \A f \in 1..5 : FloatAccepts(PadGroups(kicad_content[k])[f])
           THEN /\ footprint_data' =
                     [footprint_data EXCEPT
                        !.pads = Append(@, ParsedPad(kicad_content[k]))]
                /\ pad_pos' = k + 1
                /\ UNCHANGED <<pc, exception>>
           ELSE /\ exception' = "ValueError"
                /\ pc' = "raised"
                /\ UNCHANGED <<footprint_data, pad_pos>>
    /\ UNCHANGED <<later_run, argv, files, exit_code, console, input_file,
                   output_file, kicad_content, convVars>>

\* One iteration of "for match in re.finditer(circle_pattern, ...)", or the
\* end of the loop and the return
ParseCircle ==
    /\ pc = "parse_circles"
    /\ LET k == NextCircleMatch(kicad_content, pad_pos)
       IN  IF k = 0
           THEN /\ pc' = "parsed"
                /\ UNCHANGED <<footprint_data, pad_pos, exception>>
           ELSE IF \A f \in 1..4 : FloatAccepts(kicad_content[k].nums[f])
           THEN /\ footprint_data' =
                     [footprint_data EXCEPT
                        !.circles = Append(@, ParsedCircle(kicad_content[k]))]
                /\ pad_pos' = k + 1
                /\ UNCHANGED <<pc, exception>>
           ELSE /\ exception' = "ValueError"
                /\ pc' = "raised"
                /\ UNCHANGED <<footprint_data, pad_pos>>
    /\ UNCHANGED <<later_run, argv, files, exit_code, console, input_file,
                   output_file, kicad_content, convVars>>

----------------------------------------------------------------------------
(* main *)

IsPrefix(old, s) == Len(old) <= Len(s) /\ SubSeq(s, 1, Len(old)) = old

\* str.replace(old, new): every occurrence, left to right (old is not empty)
RECURSIVE Replace(_, _, _)
Replace(s, old, new) ==
    IF Len(s) < Len(old) THEN s
    ELSE IF IsPrefix(old, s)
    THEN new \o Replace(SubSeq(s, Len(old) + 1, Len(s)), old, new)
    ELSE <<Head(s)>> \o Replace(Tail(s), old, new)

\* input_file.replace('.kicad_mod', '_easyeda.json')
DefaultOutput(path) == Replace(path, KicadExt, EasyedaExt)

\* Paths given on the command line
Prog == <<"k", "2", "e">>
InputPaths ==
    { <<"a">> \o KicadExt,
      <<"a", ".", "t", "x", "t">>,
      <<"l">> \o KicadExt \o <<"/", "a">> \o KicadExt,
      <<"A", ".", "K", "I", "C", "A", "D", "_", "M", "O", "D">> }
OutputPaths == { <<"o", ".", "j", "s", "o", "n">>, <<"a">> \o KicadExt }

AllPaths ==
    InputPaths \cup OutputPaths \cup { DefaultOutput(q) : q \in InputPaths }

ArgvInputs ==
    { <<Prog>> }
    \cup { <<Prog, i>> : i \in InputPaths }
    \cup { <<Prog, i, o>> : i \in InputPaths, o \in OutputPaths }

\* A file: absent, a text, or the JSON document json.dump wrote
AbsentFile == [state |-> "absent", text |-> << >>, json |-> NoJson]
TextFile(text) == [state |-> "text", text |-> text, json |-> NoJson]
JsonFile(json) == [state |-> "json", text |-> << >>, json |-> json]
EmptyFile == [state |-> "empty", text |-> << >>, json |-> NoJson]

\* What the input file of a run may hold
MainConstructs ==
    { c \in ConstructValues :
        \/ c.kind = "footprint"
        \/ c.kind = "pad" /\ c.number \in {"1", "3", "5"}
        \/ c.kind = "fp_circle" /\ c.nums = <<T0, T0, T1, T0>> }

MainTexts == SeqsUpTo(MainConstructs, MaxConstructs)

Printed(line) == console' = Append(console, line)

\* sys.exit(1) after a message
ExitWith(code) ==
    /\ exit_code' = code
    /\ pc' = "exit"

MainArgsOpensOutput ==
    /\ pc = "main"
    /\ IF Len(argv) < 2
       THEN /\ Printed("Usage")
            /\ ExitWith(1)
            /\ UNCHANGED <<input_file, output_file, files>>
       ELSE /\ input_file' = argv[2]
            /\ output_file' = (IF Len(argv) > 2 THEN argv[3]
                               ELSE DefaultOutput(argv[2]))
            /\ files' = [files EXCEPT ![output_file'] = EmptyFile]
            /\ pc' = "open"
            /\ UNCHANGED <<console, exit_code>>
    /\ UNCHANGED <<later_run, argv, exception, parseVars, footprint_data,
                   convVars>>

\* The argument check and the two paths
MainArgs ==
    /\ pc = "main"
    /\ IF Len(argv) < 2
       THEN /\ Printed("Usage")
            /\ ExitWith(1)
            /\ UNCHANGED <<input_file, output_file>>
       ELSE /\ input_file' = argv[2]
            /\ output_file' = (IF Len(argv) > 2 THEN argv[3]
                               ELSE DefaultOutput(argv[2]))
            /\ pc' = "open"
            /\ UNCHANGED <<console, exit_code>>
    /\ UNCHANGED <<later_run, argv, files, exception, parseVars,
                   footprint_data, convVars>>

\* "Read KiCad file": open() raises FileNotFoundError for a missing file,
\* which is caught, and may raise PermissionError (or another OSError, or
\* read() a UnicodeDecodeError) for a file that is there, which is not
MainRead ==
    /\ pc = "open"
    /\ IF files[input_file].state = "absent"
       THEN /\ Printed("Error: File not found")
            /\ ExitWith(1)
            /\ UNCHANGED <<exception, kicad_content>>
       ELSE \/ /\ kicad_content' = files[input_file].text
               /\ Printed("Parsing KiCad footprint")
               /\ pc' = "main_parse"
               /\ UNCHANGED <<exception, exit_code>>
            \/ /\ exception' = "PermissionError"
               /\ pc' = "raised"
               /\ UNCHANGED <<console, exit_code, kicad_content>>
    /\ UNCHANGED <<later_run, argv, files, input_file, output_file, pad_pos,
                   footprint_data, convVars>>

\* footprint_data = parse_kicad_footprint(kicad_content)
MainParse ==
    /\ pc = "main_parse"
    /\ ParseEnter(kicad_content)
    /\ UNCHANGED <<later_run, mainVars, convVars>>

\* "Found: ...", the pad lines, "Converting ..." and the call
\* easyeda_data = convert_to_easyeda(footprint_data)
MainConvert ==
    /\ pc = "parsed"
    /\ Printed("Found, Converting")
    /\ ConvertEnter(footprint_data)
    /\ UNCHANGED <<later_run, argv, files, exit_code, exception, input_file,
                   output_file, parseVars>>

\* "Generated ...", "Origin ..." and "Write output": open(output_file, 'w')
\* may raise OSError, else json.dump writes the document
MainWrite ==
    /\ pc = "converted"
    /\ Printed("Generated, Origin")
    /\ \/ /\ files' = [files EXCEPT ![output_file] = JsonFile(easyeda_json)]
          /\ pc' = "written"
          /\ UNCHANGED exception
       \/ /\ exception' = "OSError"
          /\ pc' = "raised"
          /\ UNCHANGED files
    /\ UNCHANGED <<later_run, argv, exit_code, input_file, output_file,
                   parseVars, footprint_data, convVars>>

\* "Successfully converted ..." and the end of main: exit status 0
MainDone ==
    /\ pc = "written"
    /\ Printed("Successfully converted")
    /\ ExitWith(0)
    /\ UNCHANGED <<later_run, argv, files, exception, input_file, output_file,
                   parseVars, footprint_data, convVars>>

\* An exception nothing catches leaves main(): the interpreter prints the
\* traceback and exits with status 1
MainUncaught ==
    /\ pc = "raised"
    /\ Printed("Traceback")
    /\ ExitWith(1)
    /\ UNCHANGED <<later_run, argv, files, exception, input_file, output_file,
                   parseVars, footprint_data, convVars>>

----------------------------------------------------------------------------
(* The process before anything ran *)

NoArgs == << >>

NoException == ""

IdleMain ==
    /\ argv = NoArgs
    /\ files = << >>
    /\ exit_code = -1       \* no exit status: the process is running
    /\ console = << >>
    /\ exception = NoException
    /\ input_file = << >>
    /\ output_file = << >>

IdleParse ==
    /\ kicad_content = << >>
    /\ pad_pos = 1

IdleConvert ==
    /\ footprint_data = NoFootprint
    /\ shapes = << >>
    /\ gge_counter = 0
    /\ min_x = PosInf /\ max_x = NegInf
    /\ min_y = PosInf /\ max_y = NegInf
    /\ pad_i = 1 /\ circle_i = 1
    /\ easyeda_json = NoJson

\* Conversions called one after another in one process
ConvertInit ==
    /\ pc = "call"
    /\ later_run = FALSE
    /\ IdleMain /\ IdleParse /\ IdleConvert

ConvertNext ==
    \/ ConvertCall
    \/ ConvertPad
    \/ ConvertCircle
    \/ ConvertReturn
    \/ ConvertRelease

SpecConvert == ConvertInit /\ [][ConvertNext]_vars

\* parse_kicad_footprint called on a text
ParseInit ==
    /\ pc = "parse_call"
    /\ later_run = FALSE
    /\ IdleMain /\ IdleParse /\ IdleConvert

ParseNext ==
    \/ ParseCall
    \/ ParsePad
    \/ ParseCircle

SpecParse == ParseInit /\ [][ParseNext]_vars

\* One run of the command line tool
MainInit ==
    /\ pc = "main"
    /\ later_run = FALSE
    /\ argv \in ArgvInputs
    /\ \E present \in BOOLEAN, text \in MainTexts :
         files = [q \in AllPaths |->
                    IF present /\ Len(argv) >= 2 /\ q = argv[2]
                    THEN TextFile(text) ELSE AbsentFile]
    /\ exit_code = -1
    /\ console = << >>
    /\ exception = NoException
    /\ input_file = << >>
    /\ output_file = << >>
    /\ IdleParse /\ IdleConvert

MainNext ==
    \/ MainArgs
    \/ MainRead
    \/ MainParse
    \/ ParsePad
    \/ ParseCircle
    \/ MainConvert
    \/ ConvertPad
    \/ ConvertCircle
    \/ ConvertReturn
    \/ MainWrite
    \/ MainDone
    \/ MainUncaught

SpecMain == MainInit /\ [][MainNext]_vars

----------------------------------------------------------------------------
(* Properties of convert_to_easyeda *)

InConvert == pc \in {"conv_pads", "conv_circles", "conv_origin", "converted"}

\* The strings a step appends to shapes
NewTokens == SubSeq(shapes', Len(shapes) + 1, Len(shapes'))

KeepsShapes ==
    /\ Len(shapes') >= Len(shapes)
    /\ SubSeq(shapes', 1, Len(shapes)) = shapes

\* The pad the last iteration of the pad loop processed
LastPad == footprint_data.pads[pad_i - 1]

AfterPad == InConvert /\ pad_i > 1 /\ circle_i = 1

CopperNames(pad) == SelectSeq(pad.layers, LAMBDA l : l \in {"F.Cu", "B.Cu"})

CopperId(l) == IF l = "F.Cu" THEN "1" ELSE "2"

\* C1: the k-th string of shapes, and of the returned 'shape' list, carries
\* the id gge<k>, in the first conversion run of the process and in every
\* later one.
GgeIdsCountEmittedTokens ==
    /\ \A k \in 1..Len(shapes) : shapes[k].id = <<"gge", k>>
    /\ InConvert => gge_counter = Len(shapes) + 1
    /\ easyeda_json.bound =>
         \A k \in 1..Len(easyeda_json.shape) :
             easyeda_json.shape[k].id = <<"gge", k>>

\* A later run whose first pad emitted nothing and whose list still starts
\* at gge1, pads before circles
GgeIdsWitness ==
    /\ later_run /\ pc = "converted"
    /\ Len(footprint_data.pads) = 2 /\ Len(footprint_data.circles) = 1
    /\ footprint_data.pads[1].type = "smd"
    /\ Len(easyeda_json.shape) = 3
    /\ easyeda_json.shape[1].kind = "PAD"
    /\ easyeda_json.shape[1].id = <<"gge", 1>>
    /\ easyeda_json.shape[3].kind = "CIRCLE"
    /\ easyeda_json.shape[3].id = <<"gge", 3>>

\* C2 as stated: an iteration of the pad loop on a thru_hole pad whose
\* drill (in mm) is greater than 0 appends exactly one PAD string, plated
\* 'Y', on layer '11', with hole radius half the converted drill.
ThruHoleStep(pad) ==
    /\ KeepsShapes
    /\ Len(NewTokens) = 1
    /\ NewTokens[1].kind = "PAD"
    /\ NewTokens[1].number = pad.number
    /\ NewTokens[1].plated = "Y"
    /\ NewTokens[1].layer = "11"
    /\ 2 * NewTokens[1].holeradius = mm_to_easyeda(pad.drill)

ThruHoleWithSourceDrillEmitsOne ==
    [][(pc = "conv_pads"
         /\ footprint_data.pads[pad_i].type = "thru_hole"
         /\ footprint_data.pads[pad_i].drill > 0)
        => ThruHoleStep(footprint_data.pads[pad_i])]_vars

\* C2 as amended: the same for a thru_hole pad whose converted drill,
\* mm_to_easyeda(drill), is greater than 0.
ThruHoleWithConvertedDrillEmitsOne ==
    [][(pc = "conv_pads"
         /\ footprint_data.pads[pad_i].type = "thru_hole"
         /\ mm_to_easyeda(footprint_data.pads[pad_i].drill) > 0)
        => ThruHoleStep(footprint_data.pads[pad_i])]_vars

\* A thru_hole pad that is neither a circle nor on '*.Cu' got its token
ThruHoleWitness ==
    /\ AfterPad
    /\ LastPad.type = "thru_hole" /\ LastPad.drill = 800
    /\ LastPad.shape = "roundrect" /\ LastPad.layers = <<"F.Cu">>
    /\ shapes # << >>
    /\ shapes[Len(shapes)].plated = "Y"
    /\ shapes[Len(shapes)].layer = "11"
    /\ shapes[Len(shapes)].holeradius = 315

\* C3: an iteration of the pad loop on a connect pad appends exactly one PAD
\* string per associated layer that is F.Cu or B.Cu, in the order of the
\* layers, each on that layer's id, plated 'N', with hole radius 0 whatever
\* the drill.
ConnectEmitsOnePerCopperLayer ==
    [][(pc = "conv_pads" /\ footprint_data.pads[pad_i].type = "connect")
        => LET pad == footprint_data.pads[pad_i]
               names == CopperNames(pad)
           IN  /\ KeepsShapes
               /\ Len(NewTokens) = Len(names)
               /\ \A k \in 1..Len(NewTokens) :
                    /\ NewTokens[k].kind = "PAD"
                    /\ NewTokens[k].number = pad.number
                    /\ NewTokens[k].layer = CopperId(names[k])
                    /\ NewTokens[k].plated = "N"
                    /\ NewTokens[k].holeradius = 0]_vars

\* A connect pad with a drill, on both copper layers, got its two tokens
ConnectWitness ==
    /\ AfterPad
    /\ LastPad.type = "connect" /\ LastPad.drill > 0
    /\ LastPad.layers = <<"F.Cu", "B.Cu">>
    /\ Len(shapes) >= 2
    /\ shapes[Len(shapes) - 1].layer = "1"
    /\ shapes[Len(shapes)].layer = "2"
    /\ shapes[Len(shapes)].holeradius = 0

\* C8: an iteration of the pad loop on a pad that is neither a thru_hole pad
\* with drill greater than 0 nor a connect pad appends nothing and leaves
\* gge_counter as it was.
OtherPadsEmitNothing ==
    [][(pc = "conv_pads"
         /\ footprint_data.pads[pad_i].type # "connect"
         /\ ~(footprint_data.pads[pad_i].type = "thru_hole"
              /\ footprint_data.pads[pad_i].drill > 0))
        => (shapes' = shapes /\ gge_counter' = gge_counter
            /\ pad_i' = pad_i + 1)]_vars

\* An np_thru_hole pad with a drill was processed and nothing was emitted
OtherPadsWitness ==
    /\ AfterPad
    /\ LastPad.type = "np_thru_hole" /\ LastPad.drill > 0
    /\ pad_i = 3
    /\ footprint_data.pads[1].type = "thru_hole"
    /\ footprint_data.pads[1].drill = 0
    /\ shapes = << >>
    /\ gge_counter = 1

\* C6: shapes only grows at its end; the pad loop runs over the pads in
\* extraction order before any circle and appends only PAD strings of the
\* pad at hand; the circle loop runs over the circles in extraction order
\* and appends exactly one CIRCLE string of the circle at hand each time;
\* the returned 'shape' list is shapes as it stands.
TokensInExtractionOrder ==
    [][/\ pc \in {"conv_pads", "conv_circles", "conv_origin"} => KeepsShapes
       /\ pc = "conv_pads" =>
            LET pad == footprint_data.pads[pad_i]
            IN  /\ circle_i = 1 /\ pad_i' = pad_i + 1
                /\ \A k \in 1..Len(NewTokens) :
                     /\ NewTokens[k].kind = "PAD"
                     /\ NewTokens[k].number = pad.number
                     /\ NewTokens[k].x = mm_to_easyeda(pad.x)
                     /\ NewTokens[k].y = mm_to_easyeda(pad.y)
       /\ pc = "conv_circles" =>
            LET circle == footprint_data.circles[circle_i]
            IN  /\ pad_i = Len(footprint_data.pads) + 1
                /\ circle_i' = circle_i + 1
                /\ Len(NewTokens) = 1
                /\ NewTokens[1].kind = "CIRCLE"
                /\ NewTokens[1].cx = mm_to_easyeda(circle.cx)
                /\ NewTokens[1].cy = mm_to_easyeda(circle.cy)
                /\ NewTokens[1].r = mm_to_easyeda(circle.radius)
       /\ pc = "conv_origin" =>
            /\ pad_i = Len(footprint_data.pads) + 1
            /\ circle_i = Len(footprint_data.circles) + 1
            /\ easyeda_json'.shape = shapes]_vars

\* Two identical pads and two identical circles gave four strings, the
\* pads' first
ExtractionOrderWitness ==
    /\ pc = "converted"
    /\ Len(footprint_data.pads) = 2
    /\ footprint_data.pads[1] = footprint_data.pads[2]
    /\ Len(footprint_data.circles) = 2
    /\ footprint_data.circles[1] = footprint_data.circles[2]
    /\ Len(easyeda_json.shape) = 4
    /\ easyeda_json.shape[2].kind = "PAD"
    /\ easyeda_json.shape[3].kind = "CIRCLE"

\* The extents of everything processed, taken from the argument
Lefts(fd) ==
    { PadLeft(fd.pads[k]) : k \in 1..Len(fd.pads) }
    \cup { CircleLeft(fd.circles[k]) : k \in 1..Len(fd.circles) }
Rights(fd) ==
    { PadRight(fd.pads[k]) : k \in 1..Len(fd.pads) }
    \cup { CircleRight(fd.circles[k]) : k \in 1..Len(fd.circles) }
Tops(fd) ==
    { PadTop(fd.pads[k]) : k \in 1..Len(fd.pads) }
    \cup { CircleTop(fd.circles[k]) : k \in 1..Len(fd.circles) }
Bottoms(fd) ==
    { PadBottom(fd.pads[k]) : k \in 1..Len(fd.pads) }
    \cup { CircleBottom(fd.circles[k]) : k \in 1..Len(fd.circles) }

Least(S) == CHOOSE m \in S : \A e \in S : m <= e
Greatest(S) == CHOOSE m \in S : \A e \in S : m >= e

\* int(canvas + (lo + hi) / 2) for lo, hi counting 0.005 unit
Centred(canvas, lo, hi) ==
    LET sum == canvas * 400 + lo + hi
    IN  IF sum >= 0 THEN sum \div 400 ELSE -((-sum) \div 400)

\* C7: with no pad and no circle the returned shape list is empty and the
\* origin is (4000, 3000); otherwise the origin is the truncated centre of
\* the box around every pad and circle of the argument, emitted or not,
\* offset by (4000, 3000); header and canvas hold the same pair.
OriginFromAllExtents ==
    pc = "converted" =>
        LET fd == footprint_data
            head == easyeda_json.head
        IN  /\ easyeda_json.canvas.x = head.x
            /\ easyeda_json.canvas.y = head.y
            /\ IF fd.pads = << >> /\ fd.circles = << >>
               THEN /\ easyeda_json.shape = << >>
                    /\ head.x = 4000 /\ head.y = 3000
               ELSE /\ head.x = Centred(4000, Least(Lefts(fd)),
                                        Greatest(Rights(fd)))
                    /\ head.y = Centred(3000, Least(Tops(fd)),
                                        Greatest(Bottoms(fd)))

\* Two pads, the first emitting nothing, decide the origin together
OriginWitness ==
    /\ pc = "converted"
    /\ Len(footprint_data.pads) = 2
    /\ footprint_data.pads[1].type = "smd"
    /\ footprint_data.pads[2].type = "thru_hole"
    /\ footprint_data.pads[2].drill = 1000
    /\ footprint_data.circles = << >>
    /\ Len(easyeda_json.shape) = 1
    /\ easyeda_json.head.x = 4011
    /\ easyeda_json.head.y = 3002

OriginIsDefault ==
    easyeda_json.head.x = 4000 /\ easyeda_json.head.y = 3000

\* C9 as stated: when the returned shape list is empty the origin is the
\* default (4000, 3000).
NothingEmittedGivesDefaultOrigin ==
    (pc = "converted" /\ easyeda_json.shape = << >>) => OriginIsDefault

\* C9 as amended: when the returned shape list is empty, the origin is the
\* default (4000, 3000) if no pad was processed, and otherwise the centre of
\* the box around the pads processed, none of which emitted a string.
NothingProcessedGivesDefaultOrigin ==
    (pc = "converted" /\ easyeda_json.shape = << >>) =>
        LET fd == footprint_data
        IN  /\ fd.circles = << >>
            /\ IF fd.pads = << >> THEN OriginIsDefault
               ELSE /\ easyeda_json.head.x =
                         Centred(4000, Least(Lefts(fd)), Greatest(Rights(fd)))
                    /\ easyeda_json.head.y =
                         Centred(3000, Least(Tops(fd)), Greatest(Bottoms(fd)))

\* One smd pad: nothing emitted, yet the origin is the pad's centre
NothingEmittedWitness ==
    /\ pc = "converted"
    /\ Len(footprint_data.pads) = 1
    /\ footprint_data.pads[1].type = "smd"
    /\ easyeda_json.shape = << >>
    /\ easyeda_json.head.x = 4019
    /\ easyeda_json.head.y = 2995

----------------------------------------------------------------------------
(* Properties of parse_kicad_footprint *)

\* C4: parse_kicad_footprint never ends in an error: no call raises, whatever
\* the text.
ParseNeverRaises == exception = NoException

----------------------------------------------------------------------------
(* Properties of main *)

Last(seq) == seq[Len(seq)]

UsageErrorExit == pc = "exit" /\ Len(argv) < 2

ReadErrorExit ==
    /\ pc = "exit"
    /\ Len(argv) >= 2
    /\ \/ Last(console) = "Error: File not found"
       \/ exception = "PermissionError"

\* C5: a run that ends in a usage error or a read error has reported it,
\* exits with status 1 and leaves every file as it was; the files change only
\* in the write of the output file, once the text is read, parsed and
\* converted; exit status 0 comes only with the document in the output file.
ErrorRunsWriteNothing ==
    [][/\ (UsageErrorExit \/ ReadErrorExit)' =>
            /\ exit_code' = 1
            /\ Last(console') \in {"Usage", "Error: File not found", "Traceback"}
            /\ \A q \in AllPaths : files'[q].state \in {"absent", "text"}
            /\ ~easyeda_json'.bound
       /\ files' # files =>
            /\ pc = "converted"
            /\ kicad_content = files[input_file].text
            /\ footprint_data.name = FootprintName(kicad_content)
            /\ easyeda_json.bound
            /\ files' = [files EXCEPT ![output_file] = JsonFile(easyeda_json)]
       /\ exit_code' = 0 =>
            /\ files'[output_file] = JsonFile(easyeda_json)
            /\ Last(console') = "Successfully converted"]_vars

\* A run given both paths whose input file is missing ended with status 1
\* and no output file
ReadErrorWitness ==
    /\ pc = "exit"
    /\ exit_code = 1
    /\ Len(argv) = 3
    /\ input_file # output_file
    /\ Last(console) = "Error: File not found"
    /\ files[output_file].state = "absent"

\* C10: a successful run without the output path argument wrote to a path
\* that is the input path with '.kicad_mod' replaced by '_easyeda.json', that
\* differs from the input path, and left the input file's text in place.
DefaultOutputSparesInput ==
    (exit_code = 0 /\ Len(argv) = 2) =>
        /\ output_file = Replace(input_file, KicadExt, EasyedaExt)
        /\ output_file # input_file
        /\ files[input_file].state = "text"
        /\ files[input_file].text = kicad_content

====
